---- MODULE Spec2Model ----
(***************************************************************************)
(* Model of seahorse's Context (src/src/context.rs): the constructor       *)
(* Context::new, which strips flags and their values from the command line *)
(* arguments, and the typed accessors bool_flag, string_flag, int_flag and *)
(* float_flag.  Flag::option_index and Flag::value live in another file of *)
(* the crate and are modelled from the specification (sections 4.1, 6).    *)
(*                                                                         *)
(* Vec indices are 0-based as in the source; TLA+ sequences are 1-based,   *)
(* so the element at Vec index k is vec[k + 1].                            *)
(***************************************************************************)
EXTENDS Integers, Sequences, FiniteSets, TLC

VARIABLES
    args,         \* the `args` parameter of Context::new
    flags,        \* the `flags` parameter of Context::new: Option<Vec<Flag>>
    parsed_args,  \* local `parsed_args`
    v,            \* local `v`: Vec<(String, Result<FlagValue, String>)>
    i,            \* position of `for flag in flags` (1-based, next flag)
    pc,           \* "start", "loop", "done" (returned) or "panicked"
    context,      \* the constructed Context, None before it is returned
    ret           \* the last accessor call and what it returned

vars == <<args, flags, parsed_args, v, i, pc, context, ret>>

----------------------------------------------------------------------------
(* Bounds of the model *)

MaxArgs == 3
MaxFlags == 2
MaxPositional == 3
MaxEntries == 2

----------------------------------------------------------------------------
(* Option, Result and FlagValue *)

None == [some |-> FALSE]
Some(x) == [some |-> TRUE, val |-> x]

Ok(x) == [ok |-> TRUE, val |-> x]
Err(e) == [ok |-> FALSE, err |-> e]

FlagValue_Bool(b) == [type |-> "Bool", b |-> b]
FlagValue_String(s) == [type |-> "String", s |-> s]
FlagValue_Int(n) == [type |-> "Int", n |-> n]
\* a float is modelled by its value in hundredths (1.23 is 123)
FlagValue_Float(f) == [type |-> "Float", f |-> f]

FlagType == {"Bool", "String", "Int", "Float"}

Flag(name, flag_type) == [name |-> name, flag_type |-> flag_type]

SeqsUpTo(S, n) == UNION {[1..k -> S] : k \in 0..n}

----------------------------------------------------------------------------
(* Collaborators of the crate that are not in context.rs *)

\* the trigger token of a flag
Trigger(flag) == "--" \o flag.name

\* Flag::option_index: the position of the trigger in the current list
option_index(flag, vec) ==
    IF \E k \in 1..Len(vec) : vec[k] = Trigger(flag)
    THEN Some((CHOOSE k \in 1..Len(vec) :
                 /\ vec[k] = Trigger(flag)
                 /\ \A j \in 1..(k - 1) : vec[j] # Trigger(flag)) - 1)
    ELSE None

ParseInt(s) ==
    CASE s = "100" -> Some(100)
      [] s = "7" -> Some(7)
      [] OTHER -> None

ParseFloat(s) ==
    CASE s = "100" -> Some(10000)
      [] s = "7" -> Some(700)
      [] s = "1.23" -> Some(123)
      [] OTHER -> None

ArgumentError == "argument error"
ValueTypeError == "value type error"

\* Flag::value: the typed conversion of the captured token, or of its absence
value(flag, val) ==
    CASE flag.flag_type = "Bool" -> Ok(FlagValue_Bool(TRUE))
      [] flag.flag_type = "String" ->
            IF val.some THEN Ok(FlagValue_String(val.val)) ELSE Err(ArgumentError)
      [] flag.flag_type = "Int" ->
            IF ~val.some THEN Err(ArgumentError)
            ELSE IF ParseInt(val.val).some
                 THEN Ok(FlagValue_Int(ParseInt(val.val).val))
                 ELSE Err(ValueTypeError)
      [] flag.flag_type = "Float" ->
            IF ~val.some THEN Err(ArgumentError)
            ELSE IF ParseFloat(val.val).some
                 THEN Ok(FlagValue_Float(ParseFloat(val.val).val))
                 ELSE Err(ValueTypeError)

----------------------------------------------------------------------------
(* Context::new *)

\* Vec::remove(index) on a list with index < len
remove(vec, index) ==
    [k \in 1..(Len(vec) - 1) |-> IF k <= index THEN vec[k] ELSE vec[k + 1]]

\* take_val with the guard on the index instead of on emptiness: a trigger in
\* the last position captures no value and nothing panics
take_val_index_guard(flag, vec, index) ==
    IF flag.flag_type # "Bool"
    THEN IF index >= Len(vec)
         THEN [val |-> None, parsed_args |-> vec, panicked |-> FALSE]
         ELSE [val |-> Some(vec[index + 1]),
               parsed_args |-> remove(vec, index),
               panicked |-> FALSE]
    ELSE [val |-> None, parsed_args |-> vec, panicked |-> FALSE]

\* take_val that reads the value token and leaves it in the list
take_val_keep(flag, vec, index) ==
    IF flag.flag_type # "Bool"
    THEN IF vec = <<>>
         THEN [val |-> None, parsed_args |-> vec, panicked |-> FALSE]
         ELSE IF index >= Len(vec)
              THEN [val |-> None, parsed_args |-> vec, panicked |-> TRUE]
              ELSE [val |-> Some(vec[index + 1]),
                    parsed_args |-> vec,
                    panicked |-> FALSE]
    ELSE [val |-> None, parsed_args |-> vec, panicked |-> FALSE]

\* take_val that removes at index + 1: the token after the value
take_val_next(flag, vec, index) ==
    IF flag.flag_type # "Bool"
    THEN IF vec = <<>>
         THEN [val |-> None, parsed_args |-> vec, panicked |-> FALSE]
         ELSE IF index + 1 >= Len(vec)
              THEN [val |-> None, parsed_args |-> vec, panicked |-> TRUE]
              ELSE [val |-> Some(vec[index + 2]),
                    parsed_args |-> remove(vec, index + 1),
                    panicked |-> FALSE]
    ELSE [val |-> None, parsed_args |-> vec, panicked |-> FALSE]

\* take_val without the test of the flag type: a Bool flag takes the next
\* token too
take_val_any_type(flag, vec, index) ==
    IF vec = <<>>
    THEN [val |-> None, parsed_args |-> vec, panicked |-> FALSE]
    ELSE IF index >= Len(vec)
         THEN [val |-> None, parsed_args |-> vec, panicked |-> TRUE]
         ELSE [val |-> Some(vec[index + 1]),
               parsed_args |-> remove(vec, index),
               panicked |-> FALSE]

\* lines 36-44: the value token of the flag found at `index`, taken from the
\* list `vec` the trigger has already been removed from
take_val(flag, vec, index) ==
    IF flag.flag_type # "Bool"
    THEN IF vec = <<>>
         THEN [val |-> None, parsed_args |-> vec, panicked |-> FALSE]
         ELSE IF index >= Len(vec)
              THEN [val |-> None, parsed_args |-> vec, panicked |-> TRUE]
              ELSE [val |-> Some(vec[index + 1]),
                    parsed_args |-> remove(vec, index),
                    panicked |-> FALSE]
    ELSE [val |-> None, parsed_args |-> vec, panicked |-> FALSE]

\* new_flag that records an outcome only when a value token was captured
new_flag_valued_only(flag, vec, out) ==
    LET index == option_index(flag, vec) IN
    IF index.some
    THEN LET t == take_val(flag, remove(vec, index.val), index.val) IN
         IF t.panicked
         THEN [parsed_args |-> t.parsed_args, v |-> out, panicked |-> TRUE]
         ELSE [parsed_args |-> t.parsed_args,
               v |-> IF t.val.some
                     THEN Append(out, <<flag.name, value(flag, t.val)>>)
                     ELSE out,
               panicked |-> FALSE]
    ELSE [parsed_args |-> vec, v |-> out, panicked |-> FALSE]

\* lines 33-46: the body of `for flag in flags`
new_flag(flag, vec, out) ==
    LET index == option_index(flag, vec) IN
    IF index.some
    THEN LET t == take_val(flag, remove(vec, index.val), index.val) IN
         IF t.panicked
         THEN [parsed_args |-> t.parsed_args, v |-> out, panicked |-> TRUE]
         ELSE [parsed_args |-> t.parsed_args,
               v |-> Append(out, <<flag.name, value(flag, t.val)>>),
               panicked |-> FALSE]
    ELSE [parsed_args |-> vec, v |-> out, panicked |-> FALSE]

\* lines 28-29
NewEnter ==
    /\ pc = "start"
    /\ parsed_args' = args
    /\ v' = <<>>
    /\ i' = 1
    /\ pc' = "loop"
    /\ UNCHANGED <<args, flags, context, ret>>

\* lines 32-47: one iteration of the loop
NewLoop ==
    /\ pc = "loop"
    /\ flags.some
    /\ i <= Len(flags.val)
    /\ LET r == new_flag(flags.val[i], parsed_args, v) IN
         /\ parsed_args' = r.parsed_args
         /\ v' = r.v
         /\ pc' = IF r.panicked THEN "panicked" ELSE "loop"
    /\ i' = i + 1
    /\ UNCHANGED <<args, flags, context, ret>>

\* lines 30-31, 48-56
new_return(fl, vec, out) ==
    [args |-> vec, flags |-> IF fl.some THEN Some(out) ELSE None]

NewReturn ==
    /\ pc = "loop"
    /\ IF flags.some THEN i > Len(flags.val) ELSE TRUE
    /\ context' = Some(new_return(flags, parsed_args, v))
    /\ pc' = "done"
    /\ UNCHANGED <<args, flags, parsed_args, v, i, ret>>

----------------------------------------------------------------------------
(* The accessors.  result_flag_value returns Option<Result<FlagValue,       *)
(* String>>; the arms of string_flag, int_flag and float_flag are written   *)
(* Ok(..) / Err(e) / _ and are modelled as Some(Ok(..)) / Some(Err(e)) / _, *)
(* the way bool_flag writes its own.                                       *)

\* result_flag_value that finds the last entry of that name
result_flag_value_last(self, name) ==
    IF self.flags.some /\ \E k \in 1..Len(self.flags.val) : self.flags.val[k][1] = name
    THEN Some(self.flags.val[CHOOSE k \in 1..Len(self.flags.val) :
                 /\ self.flags.val[k][1] = name
                 /\ \A j \in (k + 1)..Len(self.flags.val) :
                       self.flags.val[j][1] # name][2])
    ELSE None

\* lines 60-70: the first entry of that name
result_flag_value(self, name) ==
    IF self.flags.some /\ \E k \in 1..Len(self.flags.val) : self.flags.val[k][1] = name
    THEN Some(self.flags.val[CHOOSE k \in 1..Len(self.flags.val) :
                 /\ self.flags.val[k][1] = name
                 /\ \A j \in 1..(k - 1) : self.flags.val[j][1] # name][2])
    ELSE None

\* bool_flag whose fallback arm answers true
bool_flag_default_true(self, name) ==
    LET r == result_flag_value(self, name) IN
    IF r.some /\ r.val.ok /\ r.val.val.type = "Bool" THEN r.val.val.b ELSE TRUE

\* lines 88-94
bool_flag(self, name) ==
    LET r == result_flag_value(self, name) IN
    IF r.some /\ r.val.ok /\ r.val.val.type = "Bool" THEN r.val.val.b ELSE FALSE

\* lines 113-119
string_flag(self, name) ==
    LET r == result_flag_value(self, name) IN
    IF r.some /\ r.val.ok /\ r.val.val.type = "String" THEN Ok(r.val.val.s)
    ELSE IF r.some /\ ~r.val.ok THEN Err(r.val.err)
    ELSE Err("")

\* int_flag that answers the placeholder for a conversion failure too
int_flag_placeholder(self, name) ==
    LET r == result_flag_value(self, name) IN
    IF r.some /\ r.val.ok /\ r.val.val.type = "Int" THEN Ok(r.val.val.n)
    ELSE Err("hoge")

\* lines 138-144
int_flag(self, name) ==
    LET r == result_flag_value(self, name) IN
    IF r.some /\ r.val.ok /\ r.val.val.type = "Int" THEN Ok(r.val.val.n)
    ELSE IF r.some /\ ~r.val.ok THEN Err(r.val.err)
    ELSE Err("hoge")

\* lines 163-169
float_flag(self, name) ==
    LET r == result_flag_value(self, name) IN
    IF r.some /\ r.val.ok /\ r.val.val.type = "Float" THEN Ok(r.val.val.f)
    ELSE IF r.some /\ ~r.val.ok THEN Err(r.val.err)
    ELSE Err("hoge")

\* the names the caller asks for: every name of an outcome entry, every
\* declared name, and one that is never declared
Undeclared == "help"

QueryNames ==
    {Undeclared}
    \cup (IF flags.some THEN {flags.val[k].name : k \in 1..Len(flags.val)} ELSE {})
    \cup (IF context.some /\ context.val.flags.some
          THEN {context.val.flags.val[k][1] : k \in 1..Len(context.val.flags.val)}
          ELSE {})

BoolFlag ==
    /\ pc = "done"
    /\ \E name \in QueryNames :
         ret' = [op |-> "bool_flag", name |-> name, val |-> bool_flag(context.val, name)]
    /\ UNCHANGED <<args, flags, parsed_args, v, i, pc, context>>

StringFlag ==
    /\ pc = "done"
    /\ \E name \in QueryNames :
         ret' = [op |-> "string_flag", name |-> name, val |-> string_flag(context.val, name)]
    /\ UNCHANGED <<args, flags, parsed_args, v, i, pc, context>>

IntFlag ==
    /\ pc = "done"
    /\ \E name \in QueryNames :
         ret' = [op |-> "int_flag", name |-> name, val |-> int_flag(context.val, name)]
    /\ UNCHANGED <<args, flags, parsed_args, v, i, pc, context>>

FloatFlag ==
    /\ pc = "done"
    /\ \E name \in QueryNames :
         ret' = [op |-> "float_flag", name |-> name, val |-> float_flag(context.val, name)]
    /\ UNCHANGED <<args, flags, parsed_args, v, i, pc, context>>

NoCall == [op |-> "none"]

----------------------------------------------------------------------------
(* Spec: Context::new on every token list and declaration list within the  *)
(* bounds, followed by accessor calls                                      *)

\* "100" is a positional token wherever it does not follow a non-boolean
\* trigger
Tokens == {"--bool", "--int", "100"}
FlagNames == {"bool", "int"}
\* Float takes the same path through Context::new as Int; it is declared in
\* SpecE2E and stored in SpecAccessors
Flags == {Flag(n, t) : n \in FlagNames, t \in FlagType \ {"Float"}}

Init ==
    /\ args \in SeqsUpTo(Tokens, MaxArgs)
    /\ flags \in {None} \cup {Some(s) : s \in SeqsUpTo(Flags, MaxFlags)}
    /\ parsed_args = <<>>
    /\ v = <<>>
    /\ i = 1
    /\ pc = "start"
    /\ context = None
    /\ ret = NoCall

Next ==
    \/ NewEnter
    \/ NewLoop
    \/ NewReturn
    \/ BoolFlag
    \/ StringFlag
    \/ IntFlag
    \/ FloatFlag

Spec == Init /\ [][Next]_vars

----------------------------------------------------------------------------
(* SpecE2E: the well-formed command lines of tests::context_test: a run of  *)
(* positional tokens, then the declared flags, each once, each non-boolean *)
(* one followed by a value of its type; declared in any order              *)

Positionals == <<"cli", "command", "args">>

\* the positional run of length n: cli, command, args, cli, ...
PositionalRun(n) == [k \in 1..n |-> Positionals[((k - 1) % Len(Positionals)) + 1]]

E2EFlags ==
    {Flag("bool", "Bool"), Flag("string", "String"),
     Flag("int", "Int"), Flag("float", "Float")}

InjSeqs(S) ==
    {s \in SeqsUpTo(S, Cardinality(S)) :
        \A a, b \in 1..Len(s) : a # b => s[a] # s[b]}

Range(s) == {s[k] : k \in 1..Len(s)}

ValueToken(flag_type) ==
    CASE flag_type = "String" -> "test"
      [] flag_type = "Int" -> "100"
      [] flag_type = "Float" -> "1.23"

Segment(flag) ==
    IF flag.flag_type = "Bool"
    THEN <<Trigger(flag)>>
    ELSE <<Trigger(flag), ValueToken(flag.flag_type)>>

RECURSIVE Segments(_)
Segments(order) ==
    IF order = <<>> THEN <<>> ELSE Segment(Head(order)) \o Segments(Tail(order))

InitE2E ==
    /\ \E n \in 0..MaxPositional :
       \E decl \in InjSeqs(E2EFlags) :
       \E order \in InjSeqs(E2EFlags) :
          /\ Range(order) = Range(decl)
          /\ args = PositionalRun(n) \o Segments(order)
          /\ flags = Some(decl)
    /\ parsed_args = <<>>
    /\ v = <<>>
    /\ i = 1
    /\ pc = "start"
    /\ context = None
    /\ ret = NoCall

SpecE2E == InitE2E /\ [][Next]_vars

----------------------------------------------------------------------------
(* SpecAccessors: the accessors as functions of a Context, over every      *)
(* outcome list within the bounds (a stored Bool(false) included)          *)

Outcomes ==
    {Ok(FlagValue_Bool(TRUE)), Ok(FlagValue_Bool(FALSE)),
     Ok(FlagValue_String("test")), Ok(FlagValue_Int(100)),
     Ok(FlagValue_Float(123)), Err(ArgumentError), Err(ValueTypeError)}

Entries == {<<n, o>> : n \in FlagNames, o \in Outcomes}

InitAccessors ==
    /\ args = <<>>
    /\ flags = None
    /\ parsed_args = <<>>
    /\ v = <<>>
    /\ i = 1
    /\ pc = "done"
    /\ \E f \in {None} \cup {Some(s) : s \in SeqsUpTo(Entries, MaxEntries)} :
          context = Some([args |-> <<>>, flags |-> f])
    /\ ret = NoCall

NextAccessors ==
    \/ BoolFlag
    \/ StringFlag
    \/ IntFlag
    \/ FloatFlag

SpecAccessors == InitAccessors /\ [][NextAccessors]_vars

----------------------------------------------------------------------------
(* Vocabulary of the claims *)

Done == pc = "done"

\* the loop is about to process the declaration flags.val[i]
AtFlag == pc = "loop" /\ flags.some /\ i <= Len(flags.val)

\* s without its element at (1-based) position j
Without(s, j) == SubSeq(s, 1, j - 1) \o SubSeq(s, j + 1, Len(s))

Count(s, tok) == Cardinality({k \in 1..Len(s) : s[k] = tok})

\* the states of Context::new: TraceTo(n)[k] is its state before it processes
\* declaration k, for k up to n
RECURSIVE TraceTo(_)
TraceTo(n) ==
    IF n = 1
    THEN <<[parsed_args |-> args, v |-> <<>>, panicked |-> FALSE]>>
    ELSE LET t == TraceTo(n - 1)
             s == t[n - 1]
         IN  Append(t, IF s.panicked
                       THEN s
                       ELSE new_flag(flags.val[n - 1], s.parsed_args, s.v))

Trace == TraceTo(Len(flags.val) + 1)

\* declaration k finds its trigger in the list current when it is processed
\* (t is Trace)
Located(t, k) ==
    /\ ~t[k].panicked
    /\ option_index(flags.val[k], t[k].parsed_args).some

\* the 1-based position of that trigger
TriggerPos(t, k) == option_index(flags.val[k], t[k].parsed_args).val + 1

\* declaration k is non-boolean and a token follows its trigger
HasValue(t, k) ==
    /\ Located(t, k)
    /\ flags.val[k].flag_type # "Bool"
    /\ TriggerPos(t, k) < Len(t[k].parsed_args)

ValueOf(t, k) == t[k].parsed_args[TriggerPos(t, k) + 1]

----------------------------------------------------------------------------
(* C1, C3: a non-boolean flag whose trigger is the last token *)

\* the declaration about to be processed is non-boolean and its trigger is
\* found in the last position of the current list
TrailingTrigger ==
    /\ AtFlag
    /\ flags.val[i].flag_type # "Bool"
    /\ option_index(flags.val[i], parsed_args) = Some(Len(parsed_args) - 1)

\* C1: Context::new never aborts; a non-boolean flag whose trigger is the last
\* token of the current list is converted from an absent value, its outcome
\* is recorded and the remaining list is the current list minus the trigger.
C1_MissingValueHandled ==
    [][TrailingTrigger =>
          /\ pc' # "panicked"
          /\ parsed_args' = Without(parsed_args, Len(parsed_args))
          /\ v' = Append(v, <<flags.val[i].name, value(flags.val[i], None)>>)]_vars

\* C3: a non-boolean flag whose trigger is found in the last position of the
\* current list, with at least one other token in it, makes Context::new
\* panic.
C3_TrailingFlagPanics ==
    [][(TrailingTrigger /\ Len(parsed_args) >= 2) => pc' = "panicked"]_vars

\* tests::argument_fail, within the bounds: [100, --bool, --int] with
\* bool:Bool, int:String has panicked
C3_Witness ==
    /\ pc = "panicked"
    /\ args = <<"100", "--bool", "--int">>
    /\ flags = Some(<<Flag("bool", "Bool"), Flag("int", "String")>>)

----------------------------------------------------------------------------
(* C2: purity of the positional list *)

\* C2 as stated: the returned args holds no token equal to the trigger of a
\* located flag and no token equal to a consumed value.
C2_Purity ==
    Done /\ flags.some =>
        LET t == Trace IN
        \A k \in 1..Len(flags.val) :
            /\ Located(t, k) =>
                  \A j \in 1..Len(context.val.args) :
                      context.val.args[j] # Trigger(flags.val[k])
            /\ HasValue(t, k) =>
                  \A j \in 1..Len(context.val.args) :
                      context.val.args[j] # ValueOf(t, k)

\* C2 amended: the returned args holds no token equal to the trigger of a
\* located flag, or to the value token consumed for a non-boolean flag,
\* whenever that token occurs only once in the input token list.
C2_PurityOfSingleOccurrences ==
    Done /\ flags.some =>
        LET t == Trace IN
        \A k \in 1..Len(flags.val) :
            /\ (Located(t, k) /\ Count(args, Trigger(flags.val[k])) = 1) =>
                  Count(context.val.args, Trigger(flags.val[k])) = 0
            /\ (HasValue(t, k) /\ Count(args, ValueOf(t, k)) = 1) =>
                  Count(context.val.args, ValueOf(t, k)) = 0

\* [--bool, --int, 100] with int:Int has returned [--bool]
C2_Witness ==
    /\ Done
    /\ args = <<"--bool", "--int", "100">>
    /\ flags = Some(<<Flag("int", "Int")>>)
    /\ context.val.args = <<"--bool">>

----------------------------------------------------------------------------
(* C4: boolean round trip *)

DeclaredAs(name, flag_type) ==
    /\ flags.some
    /\ \E k \in 1..Len(flags.val) : flags.val[k] = Flag(name, flag_type)

\* C4 as stated: for a declared Bool flag, bool_flag is true if the trigger
\* occurs in the input token list and false if it does not.
C4_BoolRoundTrip ==
    Done =>
        \A name \in FlagNames :
            DeclaredAs(name, "Bool") =>
                (bool_flag(context.val, name) <=> Count(args, "--" \o name) > 0)

\* C4 amended: on a constructed Context, for a name declared only as Bool,
\* bool_flag is true exactly when one of its declarations found the trigger in
\* the list current when it was processed; so it is true when the trigger
\* occurs in the input and only Bool flags are declared before it, and it is
\* false (for any declared name) when the trigger does not occur in the input.
C4_BoolRoundTripWhenLocated ==
    Done /\ flags.some =>
        LET t == Trace IN
        \A name \in FlagNames :
            /\ (DeclaredAs(name, "Bool")
                   /\ \A k \in 1..Len(flags.val) :
                          flags.val[k].name = name => flags.val[k].flag_type = "Bool") =>
                  /\ bool_flag(context.val, name) <=>
                        \E k \in 1..Len(flags.val) :
                            flags.val[k].name = name /\ Located(t, k)
                  /\ (/\ Count(args, "--" \o name) > 0
                       /\ \E k \in 1..Len(flags.val) :
                             /\ flags.val[k].name = name
                             /\ \A j \in 1..(k - 1) : flags.val[j].flag_type = "Bool") =>
                        bool_flag(context.val, name)
            /\ Count(args, "--" \o name) = 0 => ~bool_flag(context.val, name)

\* bool_flag("bool") was called and answered true, the trigger sitting
\* between other tokens and after another declaration
C4_Witness ==
    /\ Done
    /\ args = <<"100", "--bool", "100">>
    /\ flags = Some(<<Flag("int", "Int"), Flag("bool", "Bool")>>)
    /\ ret.op = "bool_flag" /\ ret.name = "bool" /\ ret.val = TRUE

----------------------------------------------------------------------------
(* C5: typed round trip *)

Parses(flag_type, tok) ==
    CASE flag_type = "String" -> TRUE
      [] flag_type = "Int" -> ParseInt(tok).some
      [] flag_type = "Float" -> ParseFloat(tok).some
      [] OTHER -> FALSE

\* what the accessor of that type is to return for the token
Converted(flag_type, tok) ==
    CASE flag_type = "String" -> Ok(tok)
      [] flag_type = "Int" -> Ok(ParseInt(tok).val)
      [] flag_type = "Float" -> Ok(ParseFloat(tok).val)

Accessor(flag_type, self, name) ==
    CASE flag_type = "String" -> string_flag(self, name)
      [] flag_type = "Int" -> int_flag(self, name)
      [] flag_type = "Float" -> float_flag(self, name)

\* C5 as stated: a declared non-boolean flag whose trigger occurs in the input
\* immediately followed by a token that parses as its type has its accessor
\* return that token converted.
C5_TypedRoundTrip ==
    Done /\ flags.some =>
        \A k \in 1..Len(flags.val) :
            LET followed ==
                    {j \in 1..(Len(args) - 1) :
                        /\ args[j] = Trigger(flags.val[k])
                        /\ Parses(flags.val[k].flag_type, args[j + 1])}
            IN  (flags.val[k].flag_type # "Bool" /\ followed # {}) =>
                    \E j \in followed :
                        Accessor(flags.val[k].flag_type, context.val, flags.val[k].name)
                            = Converted(flags.val[k].flag_type, args[j + 1])

\* C5 amended: on a constructed Context, a declared non-boolean flag whose
\* trigger, in the list current when the declaration is processed, is first
\* found immediately followed by a token that parses as its type, and whose
\* name no earlier declaration recorded an outcome for, has its accessor
\* return that token converted.
C5_TypedRoundTripWhenLocated ==
    Done /\ flags.some =>
        LET t == Trace IN
        \A k \in 1..Len(flags.val) :
            (/\ HasValue(t, k)
             /\ Parses(flags.val[k].flag_type, ValueOf(t, k))
             /\ \A j \in 1..(k - 1) :
                   flags.val[j].name = flags.val[k].name => ~Located(t, j)) =>
                Accessor(flags.val[k].flag_type, context.val, flags.val[k].name)
                    = Converted(flags.val[k].flag_type, ValueOf(t, k))

\* int_flag("int") was called and answered Ok(100) after --int 100, another
\* flag having been consumed before it
C5_Witness ==
    /\ Done
    /\ args = <<"--bool", "--int", "100">>
    /\ flags = Some(<<Flag("bool", "Bool"), Flag("int", "Int")>>)
    /\ ret.op = "int_flag" /\ ret.name = "int" /\ ret.val = Ok(100)

----------------------------------------------------------------------------
(* C6: duplicate names *)

\* the positions of the outcome entries of that name
EntriesOf(self, name) ==
    IF self.flags.some
    THEN {k \in 1..Len(self.flags.val) : self.flags.val[k][1] = name}
    ELSE {}

Max(S) == CHOOSE x \in S : \A y \in S : y <= x
Min(S) == CHOOSE x \in S : \A y \in S : x <= y

\* the Context that holds only the outcome entry k of self
Only(self, k) == [args |-> self.args, flags |-> Some(<<self.flags.val[k]>>)]

\* every accessor answers for `name` on self what it answers on other
SameAnswers(self, other, name) ==
    /\ bool_flag(self, name) = bool_flag(other, name)
    /\ string_flag(self, name) = string_flag(other, name)
    /\ int_flag(self, name) = int_flag(other, name)
    /\ float_flag(self, name) = float_flag(other, name)

\* C6 as stated: when two declarations of one name both record an outcome,
\* every accessor reports the outcome of the later one.
C6_LastDeclaredWins ==
    Done =>
        \A name \in FlagNames :
            Cardinality(EntriesOf(context.val, name)) >= 2 =>
                SameAnswers(context.val,
                            Only(context.val, Max(EntriesOf(context.val, name))), name)

\* C6 amended: when two declarations of one name both record an outcome,
\* every accessor reports the outcome of the earlier one.
C6_FirstDeclaredWins ==
    Done =>
        \A name \in FlagNames :
            Cardinality(EntriesOf(context.val, name)) >= 2 =>
                SameAnswers(context.val,
                            Only(context.val, Min(EntriesOf(context.val, name))), name)

\* bool:Bool and bool:Int both recorded an outcome and bool_flag("bool") was
\* called: it answered true, the outcome of the earlier declaration
C6_Witness ==
    /\ Done
    /\ args = <<"--bool", "--bool", "100">>
    /\ flags = Some(<<Flag("bool", "Bool"), Flag("bool", "Int")>>)
    /\ context.val.flags =
          Some(<<<<"bool", Ok(FlagValue_Bool(TRUE))>>, <<"bool", Ok(FlagValue_Int(100))>>>>)
    /\ ret.op = "bool_flag" /\ ret.name = "bool" /\ ret.val = TRUE

----------------------------------------------------------------------------
(* C7: well-formed input, end to end (checked under SpecE2E) *)

IsTrigger(tok) == \E f \in E2EFlags : tok = Trigger(f)

\* the run of tokens before the first trigger
PositionalPrefix(s) ==
    SubSeq(s, 1, Cardinality({k \in 1..Len(s) : \A j \in 1..k : ~IsTrigger(s[j])}))

ContextTestArgs ==
    <<"cli", "command", "args", "--bool", "--string", "test",
      "--int", "100", "--float", "1.23">>

ContextTestFlags ==
    <<Flag("bool", "Bool"), Flag("string", "String"),
      Flag("int", "Int"), Flag("float", "Float")>>

\* C7: on a run of positional tokens followed by the declared flags, each
\* once, each non-boolean one followed by a value of its type, Context::new
\* returns, args is the positional run and every accessor returns the
\* converted value of its flag; tests::context_test yields [cli, command,
\* args], true, Ok(test), Ok(100) and Ok(1.23).
C7_EndToEnd ==
    /\ pc # "panicked"
    /\ Done =>
          /\ context.val.args = PositionalPrefix(args)
          /\ \A k \in 1..Len(flags.val) :
                IF flags.val[k].flag_type = "Bool"
                THEN bool_flag(context.val, flags.val[k].name) = TRUE
                ELSE Accessor(flags.val[k].flag_type, context.val, flags.val[k].name)
                        = Converted(flags.val[k].flag_type,
                                    ValueToken(flags.val[k].flag_type))
    /\ (Done /\ args = ContextTestArgs /\ flags = Some(ContextTestFlags)) =>
          /\ context.val.args = <<"cli", "command", "args">>
          /\ bool_flag(context.val, "bool") = TRUE
          /\ string_flag(context.val, "string") = Ok("test")
          /\ int_flag(context.val, "int") = Ok(100)
          /\ float_flag(context.val, "float") = Ok(123)

\* tests::context_test has returned and float_flag("float") answered Ok(1.23)
C7_Witness ==
    /\ Done
    /\ args = ContextTestArgs
    /\ flags = Some(ContextTestFlags)
    /\ context.val.args = <<"cli", "command", "args">>
    /\ ret.op = "float_flag" /\ ret.name = "float" /\ ret.val = Ok(123)

----------------------------------------------------------------------------
(* C8: lookup miss *)

\* C8: for a name without an outcome entry (never declared, declared and not
\* found, or no declaration list and so no outcome list), bool_flag answers
\* false, string_flag the empty-message error, int_flag and float_flag the
\* placeholder error.
C8_LookupMiss ==
    Done =>
        \A name \in FlagNames \cup {Undeclared} :
            EntriesOf(context.val, name) = {} =>
                /\ bool_flag(context.val, name) = FALSE
                /\ string_flag(context.val, name) = Err("")
                /\ int_flag(context.val, name) = Err("hoge")
                /\ float_flag(context.val, name) = Err("hoge")

\* bool_flag was called for a flag that is declared and was not found
C8_Witness ==
    /\ Done
    /\ args = <<"100">>
    /\ flags = Some(<<Flag("bool", "Bool")>>)
    /\ context.val.flags = Some(<<>>)
    /\ ret.op = "bool_flag" /\ ret.name = "bool" /\ ret.val = FALSE

----------------------------------------------------------------------------
(* C9: what the accessors make of an outcome entry (checked under           *)
(* SpecAccessors)                                                          *)

\* the outcome of the first entry of that name
FirstOutcome(self, name) == self.flags.val[Min(EntriesOf(self, name))][2]

\* C9: for a name with an outcome entry, int_flag returns Ok(n) exactly for a
\* successful Int n, the recorded message for a conversion failure and the
\* placeholder error for a success of another type; float_flag and string_flag
\* likewise for Float and String (string_flag's placeholder being the empty
\* message); bool_flag returns true only for a successful Bool true.
C9_AccessorOutcomes ==
    \A name \in FlagNames :
        EntriesOf(context.val, name) # {} =>
            LET e == FirstOutcome(context.val, name) IN
            /\ int_flag(context.val, name) =
                  IF ~e.ok THEN Err(e.err)
                  ELSE IF e.val.type = "Int" THEN Ok(e.val.n) ELSE Err("hoge")
            /\ float_flag(context.val, name) =
                  IF ~e.ok THEN Err(e.err)
                  ELSE IF e.val.type = "Float" THEN Ok(e.val.f) ELSE Err("hoge")
            /\ string_flag(context.val, name) =
                  IF ~e.ok THEN Err(e.err)
                  ELSE IF e.val.type = "String" THEN Ok(e.val.s) ELSE Err("")
            /\ bool_flag(context.val, name) <=>
                  e = Ok(FlagValue_Bool(TRUE))

\* int_flag was called on a recorded conversion failure and returned its
\* message
C9_Witness ==
    /\ context.val.flags = Some(<<<<"int", Err(ValueTypeError)>>>>)
    /\ ret.op = "int_flag" /\ ret.name = "int" /\ ret.val = Err(ValueTypeError)

----------------------------------------------------------------------------
(* C10: the remaining list *)

RECURSIVE IsSubsequence(_, _)
IsSubsequence(a, b) ==
    IF a = <<>> THEN TRUE
    ELSE IF b = <<>> THEN FALSE
    ELSE IF Head(a) = Head(b) THEN IsSubsequence(Tail(a), Tail(b))
    ELSE IsSubsequence(a, Tail(b))

NumEntries(self) == IF self.flags.some THEN Len(self.flags.val) ELSE 0

\* the non-boolean declarations that found their trigger with a token after
\* it: the value tokens removed
NumValues ==
    IF flags.some
    THEN LET t == Trace IN Cardinality({k \in 1..Len(flags.val) : HasValue(t, k)})
    ELSE 0

\* C10: the returned args is the input with tokens deleted and the order
\* kept; its length is the input's minus one per outcome entry minus one per
\* value token removed; a Bool flag deletes its trigger only; without a
\* declaration list or a located trigger args is the input.
C10_RemainingList ==
    Done =>
        /\ IsSubsequence(context.val.args, args)
        /\ Len(context.val.args)
              = Len(args) - NumEntries(context.val) - NumValues
        /\ flags.some =>
              LET t == Trace IN
              \A k \in 1..Len(flags.val) :
                  (Located(t, k) /\ flags.val[k].flag_type = "Bool") =>
                      t[k + 1].parsed_args
                          = Without(t[k].parsed_args, TriggerPos(t, k))
        /\ NumEntries(context.val) = 0 => context.val.args = args

\* Context::new has returned a list that kept a token after removing a
\* non-boolean flag and its value
C10_Witness ==
    /\ Done
    /\ NumEntries(context.val) >= 1
    /\ NumValues >= 1
    /\ Len(context.val.args) >= 1

====
